---- MODULE Spec2Model ----
(***************************************************************************)
(* State-machine model of ToyTfIdfGuesser (src/tfidf/toytfidf_guesser.py). *)
(*                                                                         *)
(* A text is represented by the sequence of raw tokens the configured     *)
(* whitespace tokenizer yields for it; the normalizer is lower().          *)
(* Every method is an operator from the instance's fields (a record) to a  *)
(* result record [self, ok, err, id, vec]: the fields after the call,      *)
(* whether it returned (ok) or raised (err), and the value returned.       *)
(* An action applies the constructor or one public method to the instance *)
(* in use and records the call and its outcome in the variable last; the   *)
(* constructor replaces the instance in use by a new one with the same     *)
(* arguments, and the files save() has written outlive it.                 *)
(***************************************************************************)
EXTENDS Integers, Sequences, FiniteSets

VARIABLES
    vocab_size,      \* self._vocab_size
    max_vocab_size,  \* self._max_vocab_size
    total_docs,      \* self._total_docs
    doc_vectors,     \* self._doc_vectors: [set |-> FALSE] is None
    vocab_final,     \* self._vocab_final
    docs_final,      \* self._docs_final
    vocab,           \* self._vocab: word -> id
    unk_cutoff,      \* self._unk_cutoff
    doc_counts,      \* self._doc_counts: <<word, count>> in insertion order
    questions,       \* self.questions (set by Guesser.train)
    answers,         \* self.answers (set by Guesser.train)
    last,            \* the latest call on the instance and its outcome
    disk             \* the files save() has written under self.filename

vars == <<vocab_size, max_vocab_size, total_docs, doc_vectors, vocab_final,
          docs_final, vocab, unk_cutoff, doc_counts, questions, answers, last,
          disk>>

-----------------------------------------------------------------------------
(* Bounds of the model *)

\* largest count a vocab_seen call may bring a word to
MaxCount == 2
\* largest total of documents a scan_document call may bring an instance to
MaxDocs == 1
\* largest count pass 1 of train may bring a word to
MaxSeen == 2
\* largest number of times save() writes the files
MaxSaves == 1

-----------------------------------------------------------------------------
(* Inputs *)

kUNK == "<UNK>"

\* raw tokens vocab_seen and vocab_lookup are given
Words == {"A"}

\* values of the count argument of vocab_seen (1 is the default)
Counts == 1..MaxCount

\* texts, as token sequences: the empty text, one token, a token twice
Texts == {<<>>, <<"A">>, <<"a", "a">>}

\* constructor arguments (max_vocab_size, unk_cutoff)
Configs == {<<50, 1>>, <<2, 1>>}

\* the corpus of the end-to-end scenario, and one whose tokens differ in case
ToyCorpus == << <<"the", "cat", "sat">>, <<"the", "dog", "ran">>,
                <<"cats", "and", "dogs">> >>
ToyLabels == <<"A", "B", "C">>
CaseCorpus == << <<"A", "a">> >>
CaseLabels == <<"A">>
Corpora == {<<ToyCorpus, ToyLabels>>, <<CaseCorpus, CaseLabels>>}

lower(str) ==
    CASE str = "A" -> "a"
      [] str = kUNK -> "<unk>"
      [] OTHER -> str

-----------------------------------------------------------------------------
(* Values *)

EmptyDict == [w \in {} |-> 0]
None == [set |-> FALSE, rows |-> <<>>]

\* a weight tf * idf = (c / n) * log10(p / q), kept as <<c, n, p, q>>
ZeroWeight == <<0, 1, 1, 1>>

\* np.zeros(n), n >= 0
zeros(n) == [i \in 1..n |-> ZeroWeight]

\* log10(x) = log(x) / log(10) of a positive rational x = <<p, q>>.  The
\* logarithm is strictly increasing, so a value is kept as its argument in
\* lowest terms: log10(x) >= log10(y) iff x >= y, and log10(<<1, 1>>) is 0.0.
RECURSIVE GCD(_, _)
GCD(m, n) == IF n = 0 THEN m ELSE GCD(n, m % n)

log10(x) == <<x[1] \div GCD(x[1], x[2]), x[2] \div GCD(x[1], x[2])>>

Zero == <<1, 1>>

\* x >= y for two values of log10
Geq(x, y) == x[1] * y[2] >= y[1] * x[2]

Ret(s, ok, err, id, vec) == [self |-> s, ok |-> ok, err |-> err, id |-> id, vec |-> vec]
Ok(s) == Ret(s, TRUE, "", -1, <<>>)
Raise(s, err) == Ret(s, FALSE, err, -1, <<>>)

-----------------------------------------------------------------------------
(* FreqDist (a Counter: a dict in insertion order) *)

Keys(fd) == {fd[i][1] : i \in 1..Len(fd)}

\* fd[word]: 0 for a missing key
Get(fd, word) ==
    IF word \in Keys(fd)
    THEN fd[CHOOSE i \in 1..Len(fd) : fd[i][1] = word][2]
    ELSE 0

\* fd[word] += count
Add(fd, word, count) ==
    IF word \in Keys(fd)
    THEN [i \in 1..Len(fd) |-> IF fd[i][1] = word THEN <<word, fd[i][2] + count>> ELSE fd[i]]
    ELSE Append(fd, <<word, count>>)

\* sorted(items, key=count, reverse=True): stable, equal counts keep their order
RECURSIVE InsertDesc(_, _)
InsertDesc(sorted, item) ==
    IF sorted = <<>> THEN <<item>>
    ELSE IF Head(sorted)[2] >= item[2]
         THEN <<Head(sorted)>> \o InsertDesc(Tail(sorted), item)
         ELSE <<item>> \o sorted

RECURSIVE sorted_counts(_)
sorted_counts(fd) ==
    IF fd = <<>> THEN <<>>
    ELSE InsertDesc(sorted_counts(SubSeq(fd, 1, Len(fd) - 1)), fd[Len(fd)])

\* seq[:n] of Python, n of either sign
Slice(seq, n) ==
    IF n >= 0
    THEN SubSeq(seq, 1, IF n < Len(seq) THEN n ELSE Len(seq))
    ELSE SubSeq(seq, 1, IF Len(seq) + n > 0 THEN Len(seq) + n ELSE 0)

-----------------------------------------------------------------------------
(* The instance *)

Self == [vocab_size |-> vocab_size, max_vocab_size |-> max_vocab_size,
         total_docs |-> total_docs, doc_vectors |-> doc_vectors,
         vocab_final |-> vocab_final, docs_final |-> docs_final,
         vocab |-> vocab, unk_cutoff |-> unk_cutoff,
         doc_counts |-> doc_counts, questions |-> questions,
         answers |-> answers]

\* __init__(filename, max_vocab_size, ..., unk_cutoff)
init(max, cutoff) ==
    [vocab_size |-> -1, max_vocab_size |-> max, total_docs |-> 0,
     doc_vectors |-> None, vocab_final |-> FALSE, docs_final |-> FALSE,
     vocab |-> EmptyDict, unk_cutoff |-> cutoff, doc_counts |-> <<>>,
     questions |-> <<>>, answers |-> <<>>]

Holds(s) ==
    /\ vocab_size = s.vocab_size
    /\ max_vocab_size = s.max_vocab_size
    /\ total_docs = s.total_docs
    /\ doc_vectors = s.doc_vectors
    /\ vocab_final = s.vocab_final
    /\ docs_final = s.docs_final
    /\ vocab = s.vocab
    /\ unk_cutoff = s.unk_cutoff
    /\ doc_counts = s.doc_counts
    /\ questions = s.questions
    /\ answers = s.answers

Installed(s) ==
    /\ vocab_size' = s.vocab_size
    /\ max_vocab_size' = s.max_vocab_size
    /\ total_docs' = s.total_docs
    /\ doc_vectors' = s.doc_vectors
    /\ vocab_final' = s.vocab_final
    /\ docs_final' = s.docs_final
    /\ vocab' = s.vocab
    /\ unk_cutoff' = s.unk_cutoff
    /\ doc_counts' = s.doc_counts
    /\ questions' = s.questions
    /\ answers' = s.answers

-----------------------------------------------------------------------------
(* Methods *)

\* vocab_seen that counts one occurrence whatever its count argument
vocab_seen_once(s, word, count) ==
    IF s.vocab_final THEN Raise(s, "AssertionError")
    ELSE Ok([s EXCEPT !.doc_counts = Add(s.doc_counts, word, 1)])

vocab_seen(s, word, count) ==
    IF s.vocab_final THEN Raise(s, "AssertionError")
    ELSE Ok([s EXCEPT !.doc_counts = Add(s.doc_counts, word, count)])

vocab_lookup(s, word) ==
    IF ~s.vocab_final THEN Raise(s, "AssertionError")
    ELSE IF word \notin DOMAIN s.vocab /\ kUNK \notin DOMAIN s.vocab
    THEN Raise(s, "KeyError")
    ELSE LET lookup == IF word \in DOMAIN s.vocab THEN s.vocab[word] ELSE s.vocab[kUNK]
         IN  IF lookup >= 0 /\ lookup < s.vocab_size
             THEN Ret(s, TRUE, "", lookup, <<>>)
             ELSE Raise(s, "AssertionError")

\* self._doc_freq is assigned nowhere in the class (not in __init__, not in
\* load), so reading it raises once the assertion on _docs_final has passed.
inv_docfreq(s, word) ==
    IF ~s.docs_final THEN Raise(s, "AssertionError")
    ELSE Raise(s, "AttributeError")

\* finalize_vocab that sets the flag before the capacity check
finalize_vocab_flagfirst(s) ==
    LET sorted == sorted_counts(s.doc_counts)
        top == Slice(sorted, s.max_vocab_size)
        kept == {i \in 1..Len(top) : top[i][2] >= s.unk_cutoff}
        words == {top[i][1] : i \in kept}
        comp == [w \in words |-> (CHOOSE i \in kept : top[i][1] = w) - 1]
        withunk == [w \in words \cup {kUNK} |->
                      IF w = kUNK THEN Cardinality(words) ELSE comp[w]]
        size == Cardinality(DOMAIN withunk)
        s1 == [s EXCEPT !.vocab = withunk, !.vocab_size = size, !.vocab_final = TRUE]
    IN  IF size < s.max_vocab_size
        THEN Ok(s1)
        ELSE Raise(s1, "AssertionError")

\* finalize_vocab with the capacity check size <= max_vocab_size
finalize_vocab_atmost(s) ==
    LET sorted == sorted_counts(s.doc_counts)
        top == Slice(sorted, s.max_vocab_size)
        kept == {i \in 1..Len(top) : top[i][2] >= s.unk_cutoff}
        words == {top[i][1] : i \in kept}
        comp == [w \in words |-> (CHOOSE i \in kept : top[i][1] = w) - 1]
        withunk == [w \in words \cup {kUNK} |->
                      IF w = kUNK THEN Cardinality(words) ELSE comp[w]]
        size == Cardinality(DOMAIN withunk)
        s1 == [s EXCEPT !.vocab = withunk, !.vocab_size = size]
    IN  IF size <= s.max_vocab_size
        THEN Ok([s1 EXCEPT !.vocab_final = TRUE])
        ELSE Raise(s1, "AssertionError")

finalize_vocab(s) ==
    LET sorted == sorted_counts(s.doc_counts)
        top == Slice(sorted, s.max_vocab_size)
        kept == {i \in 1..Len(top) : top[i][2] >= s.unk_cutoff}
        words == {top[i][1] : i \in kept}
        comp == [w \in words |-> (CHOOSE i \in kept : top[i][1] = w) - 1]
        withunk == [w \in words \cup {kUNK} |->
                      IF w = kUNK THEN Cardinality(words) ELSE comp[w]]
        size == Cardinality(DOMAIN withunk)
        s1 == [s EXCEPT !.vocab = withunk, !.vocab_size = size]
    IN  IF size < s.max_vocab_size
        THEN Ok([s1 EXCEPT !.vocab_final = TRUE])
        ELSE Raise(s1, "AssertionError")

RECURSIVE CountTokens(_, _, _)
CountTokens(fd, v, tokens) ==
    IF tokens = <<>> THEN fd
    ELSE LET word == IF Head(tokens) \in DOMAIN v THEN Head(tokens) ELSE kUNK
         IN  CountTokens(Add(fd, word, 1), v, Tail(tokens))

\* scan_document without the assertion on _docs_final
scan_document_ungated(s, text) ==
    IF ~s.vocab_final THEN Raise(s, "AssertionError")
    ELSE Ok([s EXCEPT !.doc_counts = CountTokens(s.doc_counts, s.vocab, text),
                      !.total_docs = s.total_docs + 1])

scan_document(s, text) ==
    IF ~s.vocab_final THEN Raise(s, "AssertionError")
    ELSE IF s.docs_final THEN Raise(s, "AssertionError")
    ELSE Ok([s EXCEPT !.doc_counts = CountTokens(s.doc_counts, s.vocab, text),
                      !.total_docs = s.total_docs + 1])

\* The flag is set first; the logging loop then calls inv_docfreq for the
\* first (up to ten) vocabulary entries and the first of them raises.
finalize_docs(s) ==
    LET s1 == [s EXCEPT !.docs_final = TRUE]
    IN  IF DOMAIN s1.vocab = {} THEN Ok(s1)
        ELSE LET ww == CHOOSE w \in DOMAIN s1.vocab : TRUE
             IN  Raise(s1, inv_docfreq(s1, s1.vocab[ww]).err)

\* embed that counts the tokens outside the vocabulary under the unknown
\* token and weights it as a token found in every document:
\* tf * log10(N / (1 + N)), for N = _total_docs >= 1
embed_unknown(s, text) ==
    IF s.vocab_size < 0 THEN Raise(s, "ValueError")
    ELSE LET vector == zeros(s.vocab_size)
             present == SelectSeq(text, LAMBDA x : x \in DOMAIN s.vocab)
             idf == log10(<<s.total_docs, 1 + s.total_docs>>)
         IN  IF present # <<>>
             THEN LET index == vocab_lookup(s, present[1])
                  IN  IF ~index.ok THEN Raise(s, index.err)
                      ELSE Raise(s, inv_docfreq(s, index.id).err)
             ELSE IF text = <<>> \/ s.total_docs = 0 \/ ~vocab_lookup(s, kUNK).ok
             THEN Ret(s, TRUE, "", -1, vector)
             ELSE Ret(s, TRUE, "", -1,
                      [vector EXCEPT ![vocab_lookup(s, kUNK).id + 1] =
                                        <<Len(text), Len(text), idf[1], idf[2]>>])

\* embed that counts the text as a document, the way scan_document does
embed_counting(s, text) ==
    LET s1 == [s EXCEPT !.total_docs = s.total_docs + 1]
    IN  IF s1.vocab_size < 0 THEN Raise(s1, "ValueError")
        ELSE LET vector == zeros(s1.vocab_size)
                 present == SelectSeq(text, LAMBDA x : x \in DOMAIN s1.vocab)
             IN  IF present = <<>> THEN Ret(s1, TRUE, "", -1, vector)
                 ELSE LET index == vocab_lookup(s1, present[1])
                      IN  IF ~index.ok THEN Raise(s1, index.err)
                          ELSE Raise(s1, inv_docfreq(s1, index.id).err)

\* np.zeros raises on the placeholder size -1.  Tokens outside the
\* vocabulary are filtered out before counting; the loop over the words that
\* remain ends at its first word, in vocab_lookup or in inv_docfreq, which
\* has no returning path.
embed(s, text) ==
    IF s.vocab_size < 0 THEN Raise(s, "ValueError")
    ELSE LET vector == zeros(s.vocab_size)
             present == SelectSeq(text, LAMBDA x : x \in DOMAIN s.vocab)
         IN  IF present = <<>> THEN Ret(s, TRUE, "", -1, vector)
             ELSE LET index == vocab_lookup(s, present[1])
                  IN  IF ~index.ok THEN Raise(s, index.err)
                      ELSE Raise(s, inv_docfreq(s, index.id).err)

\* tokenize(sent), one token at a time: the normalized word while the
\* vocabulary is open, its id (vocab_lookup) once it is final
tokenize1(s, raw) ==
    IF s.vocab_final THEN vocab_lookup(s, lower(raw))
    ELSE Ok(s)

\* pass 1 of train: vocab_seen(word) for every word of tokenize(question)
RECURSIVE SeeAll(_, _)
SeeAll(s, tokens) ==
    IF tokens = <<>> THEN Ok(s)
    ELSE LET tok == tokenize1(s, Head(tokens))
         IN  IF ~tok.ok THEN Raise(s, tok.err)
             ELSE LET seen == vocab_seen(s, lower(Head(tokens)), 1)
                  IN  IF ~seen.ok THEN seen ELSE SeeAll(seen.self, Tail(tokens))

\* pass 2 of train: scan_document(question) for every question
RECURSIVE ScanAll(_, _)
ScanAll(s, docs) ==
    IF docs = <<>> THEN Ok(s)
    ELSE LET scanned == scan_document(s, Head(docs))
         IN  IF ~scanned.ok THEN scanned ELSE ScanAll(scanned.self, Tail(docs))

\* pass 3 of train: self._doc_vectors[row_id] = self.embed(question)
RECURSIVE EmbedAll(_, _)
EmbedAll(s, row_id) ==
    IF row_id > Len(s.questions) THEN Ok(s)
    ELSE LET row == embed(s, s.questions[row_id])
         IN  IF ~row.ok THEN Raise(s, row.err)
             ELSE EmbedAll([s EXCEPT !.doc_vectors.rows[row_id] = row.vec], row_id + 1)

RECURSIVE Flatten(_)
Flatten(docs) == IF docs = <<>> THEN <<>> ELSE Head(docs) \o Flatten(Tail(docs))

\* the number of token occurrences in a corpus whose normalized form is word
Occurrences(corpus, word) ==
    Cardinality({i \in 1..Len(Flatten(corpus)) : lower(Flatten(corpus)[i]) = word})

\* Guesser.train stores the texts and the labels; then the three passes
train(s, corpus, labels) ==
    LET s0 == [s EXCEPT !.questions = corpus, !.answers = labels]
        p1 == SeeAll(s0, Flatten(s0.questions))
    IN  IF ~p1.ok THEN p1
        ELSE LET fv == finalize_vocab(p1.self)
        IN  IF ~fv.ok THEN fv
        ELSE LET p2 == ScanAll(fv.self, fv.self.questions)
        IN  IF ~p2.ok THEN p2
        ELSE LET fd == finalize_docs(p2.self)
        IN  IF ~fd.ok THEN fd
        ELSE IF fd.self.total_docs # Len(fd.self.questions)
        THEN Raise(fd.self, "AssertionError")
        ELSE EmbedAll([fd.self EXCEPT !.doc_vectors =
                          [set |-> TRUE,
                           rows |-> [i \in 1..Len(fd.self.questions) |->
                                        zeros(fd.self.vocab_size)]]], 1)

\* the first index (from 0) of the largest entry: ndarray.argmax()
argmax(similarities) ==
    (CHOOSE i \in 1..Len(similarities) :
        /\ \A j \in 1..Len(similarities) : similarities[i] >= similarities[j]
        /\ \A j \in 1..(i - 1) : similarities[j] < similarities[i]) - 1

\* a vector whose entries are all 0.0
IsZeros(vector) == \A i \in 1..Len(vector) : vector[i] = ZeroWeight

\* The cosine of two rows.  sklearn normalizes each row by its norm and
\* leaves a row of norm 0 as it is, so the cosine with a row of zeros is 0.0;
\* the cosine of a non-zero row with itself is 1.0.  embed has no returning
\* path that writes an entry, so no other pair of rows arises.
cosine(u, v) ==
    CASE IsZeros(u) \/ IsZeros(v) -> 0
      [] ~IsZeros(u) /\ u = v -> 1

\* the number of columns of a matrix (no corpus of the model is empty)
Cols(matrix) == IF matrix.rows = <<>> THEN 0 ELSE Len(matrix.rows[1])

\* cosine_similarity(X, Y)[0] for a one-row X.  With Y = None sklearn
\* compares X with itself.  The input validation rejects an array without
\* columns or without rows, and two arrays whose column counts differ.
cosine_similarity(x, Y) ==
    IF Len(x) = 0 THEN Raise(<<>>, "ValueError")
    ELSE IF ~Y.set THEN Ret(<<>>, TRUE, "", -1, <<cosine(x, x)>>)
    ELSE IF Y.rows = <<>> \/ Cols(Y) # Len(x) THEN Raise(<<>>, "ValueError")
    ELSE Ret(<<>>, TRUE, "", -1, [i \in 1..Len(Y.rows) |-> cosine(x, Y.rows[i])])

\* __call__(question, max_n_guesses): the row returned is id, and vec holds
\* the question, the guess and the confidence of the dictionary returned.
\* self.questions exists once Guesser.train has stored the corpus.
call(s, question, max_n_guesses) ==
    IF max_n_guesses # 1 THEN Raise(s, "AssertionError")
    ELSE LET question_tfidf == embed(s, question)
         IN  IF ~question_tfidf.ok THEN Raise(s, question_tfidf.err)
             ELSE LET similarities == cosine_similarity(question_tfidf.vec, s.doc_vectors)
                  IN  IF ~similarities.ok THEN Raise(s, similarities.err)
                      ELSE LET best == argmax(similarities.vec)
                           IN  IF s.questions = <<>> THEN Raise(s, "AttributeError")
                               ELSE IF best >= Len(s.questions) THEN Raise(s, "IndexError")
                               ELSE Ret(s, TRUE, "", best,
                                        <<s.questions[best + 1], s.answers[best + 1],
                                          similarities.vec[best + 1]>>)

\* the files before any save(); written counts the save() calls so far
NoFiles == [written |-> 0, vocab |-> EmptyDict, doc_vectors |-> None,
            doc_counts |-> <<>>, questions |-> <<>>, answers |-> <<>>]

\* save(): the questions and answers (Guesser.save_questions_and_answers)
\* and the three pickles; the value is the content of the files
save(s, files) ==
    [written |-> files.written + 1, vocab |-> s.vocab, doc_vectors |-> s.doc_vectors,
     doc_counts |-> s.doc_counts, questions |-> s.questions, answers |-> s.answers]

\* load(): every assignment up to the statement that raises takes effect.
\* _doc_vectors.shape raises on the None that an instance without a matrix
\* has pickled.
load(s, files) ==
    IF files.written = 0 THEN Raise(s, "FileNotFoundError")
    ELSE LET s1 == [s EXCEPT !.questions = files.questions,
                             !.answers = files.answers,
                             !.vocab = files.vocab,
                             !.vocab_size = Cardinality(DOMAIN files.vocab),
                             !.vocab_final = TRUE,
                             !.doc_vectors = files.doc_vectors,
                             !.doc_counts = files.doc_counts]
         IN  IF ~s1.doc_vectors.set THEN Raise(s1, "AttributeError")
             ELSE LET s2 == [s1 EXCEPT !.total_docs = Len(s1.doc_vectors.rows),
                                       !.docs_final = TRUE]
                  IN  IF s2.vocab_size = Cols(s2.doc_vectors) THEN Ok(s2)
                      ELSE Raise(s2, "AssertionError")

-----------------------------------------------------------------------------
(* Actions *)

Record(op, r, word, count, text, corpus, fresh) ==
    /\ Installed(r.self)
    /\ last' = [op |-> op, ok |-> r.ok, err |-> r.err, id |-> r.id, vec |-> r.vec,
                word |-> word, count |-> count, text |-> text, corpus |-> corpus,
                fresh |-> fresh]

\* a call of any method but save leaves the files as they are
Call(op, r, word, count, text, corpus, fresh) ==
    /\ Record(op, r, word, count, text, corpus, fresh)
    /\ UNCHANGED disk

NoCall == [op |-> "__init__", ok |-> TRUE, err |-> "", id |-> -1, vec |-> <<>>,
           word |-> "", count |-> 0, text |-> <<>>, corpus |-> <<>>, fresh |-> TRUE]

Fresh == Self = init(max_vocab_size, unk_cutoff)

Init ==
    /\ \E c \in Configs : Holds(init(c[1], c[2]))
    /\ last = NoCall
    /\ disk = NoFiles

VocabSeen ==
    \E word \in Words, count \in Counts :
        /\ Get(doc_counts, word) + count <= MaxCount
        /\ Call("vocab_seen", vocab_seen(Self, word, count), word, count, <<>>, <<>>, Fresh)

FinalizeVocab ==
    Call("finalize_vocab", finalize_vocab(Self), "", 0, <<>>, <<>>, Fresh)

ScanDocument ==
    \E text \in Texts :
        /\ scan_document(Self, text).self.total_docs <= MaxDocs
        /\ Call("scan_document", scan_document(Self, text), "", 0, text, <<>>, Fresh)

FinalizeDocs ==
    Call("finalize_docs", finalize_docs(Self), "", 0, <<>>, <<>>, Fresh)

Embed ==
    \E text \in Texts :
        Call("embed", embed(Self, text), "", 0, text, <<>>, Fresh)

VocabLookup ==
    \E word \in Words :
        Call("vocab_lookup", vocab_lookup(Self, word), word, 0, <<>>, <<>>, Fresh)

InvDocfreq ==
    \E word \in 0..1 :
        Call("inv_docfreq", inv_docfreq(Self, word), "", word, <<>>, <<>>, Fresh)

\* train, on any instance: with a final vocabulary it stores the questions
\* and raises at its first vocab_seen; otherwise pass 1 counts the corpus,
\* no further than MaxSeen.
Train ==
    \E c \in Corpora :
        /\ vocab_final \/ \A i \in 1..Len(Flatten(c[1])) :
               Get(doc_counts, lower(Flatten(c[1])[i]))
                   + Occurrences(c[1], lower(Flatten(c[1])[i])) <= MaxSeen
        /\ Call("train", train(Self, c[1], c[2]), "", 0, <<>>, c[1], Fresh)

\* a query, with the default max_n_guesses
Query ==
    \E text \in Texts :
        Call("__call__", call(Self, text, 1), "", 0, text, <<>>, Fresh)

\* save(): it raises, before it writes, on an instance train has not been
\* called on, which has no questions to store; it writes MaxSaves times at
\* most
Save ==
    IF questions = <<>>
    THEN Call("save", Raise(Self, "AttributeError"), "", 0, <<>>, <<>>, Fresh)
    ELSE /\ disk.written < MaxSaves
         /\ Record("save", Ok(Self), "", 0, <<>>, <<>>, Fresh)
         /\ disk' = save(Self, disk)

\* load() on the instance in use
Load ==
    Call("load", load(Self, disk), "", 0, <<>>, <<>>, Fresh)

\* the constructor, with the same arguments: the instance in use becomes a
\* new one and the files stay
New ==
    Call("__init__", Ok(init(max_vocab_size, unk_cutoff)), "", 0, <<>>, <<>>, Fresh)

Next ==
    \/ New
    \/ Train
    \/ VocabSeen
    \/ FinalizeVocab
    \/ ScanDocument
    \/ FinalizeDocs
    \/ Embed
    \/ VocabLookup
    \/ InvDocfreq
    \/ Query
    \/ Save
    \/ Load

Spec == Init /\ [][Next]_vars

-----------------------------------------------------------------------------
(* Properties *)

\* entry j of a count table comes before entry i when sorted by descending
\* count with ties in first-seen order
Precedes(fd, j, i) == fd[j][2] > fd[i][2] \/ (fd[j][2] = fd[i][2] /\ j < i)

\* the position (from 0) of entry i in that order
Rank(fd, i) == Cardinality({j \in 1..Len(fd) : Precedes(fd, j, i)})

Min(m, n) == IF m <= n THEN m ELSE n

\* C1: a successful finalize_vocab keeps the first k tokens, in the order of
\* descending count with ties first-seen, among those whose count is at least
\* unk_cutoff, k being at most max_vocab_size - 1; a kept token's id is its
\* position 0..k-1 in that order, the unknown token's id is k, the last one.
C1_FinalizeSelection ==
    [][(last'.op = "finalize_vocab" /\ last'.ok) =>
        LET eligible == {i \in 1..Len(doc_counts) : doc_counts[i][2] >= unk_cutoff}
            k == Min(Cardinality(eligible), max_vocab_size - 1)
            kept == {i \in eligible : Rank(doc_counts, i) < k}
        IN  /\ DOMAIN vocab' = {doc_counts[i][1] : i \in kept} \cup {kUNK}
            /\ \A i \in kept : vocab'[doc_counts[i][1]] = Rank(doc_counts, i)
            /\ vocab'[kUNK] = k
            /\ vocab_size' = k + 1]_vars

\* C2: once the vocabulary is final, the token -> id mapping is a bijection
\* between the vocabulary's tokens and 0..vocab_size-1.
C2_VocabBijection ==
    vocab_final =>
        /\ \A w \in DOMAIN vocab : vocab[w] \in 0..(vocab_size - 1)
        /\ \A v, w \in DOMAIN vocab : vocab[v] = vocab[w] => v = w
        /\ \A id \in 0..(vocab_size - 1) : \E w \in DOMAIN vocab : vocab[w] = id

\* C3: with the vocabulary final, vocab_lookup returns for every token an id
\* in 0..vocab_size-1, the token's own id or else the unknown token's; with
\* the vocabulary not final it fails.
C3_LookupTotal ==
    last.op = "vocab_lookup" =>
        IF vocab_final
        THEN /\ last.ok
             /\ last.id \in 0..(vocab_size - 1)
             /\ last.id = IF last.word \in DOMAIN vocab THEN vocab[last.word]
                          ELSE vocab[kUNK]
        ELSE ~last.ok

\* C4: the documents are final only if the vocabulary is final, and
\* finalize_docs fails while the vocabulary is not final.
C4_LifecycleOrder ==
    /\ docs_final => vocab_final
    /\ (last.op = "finalize_docs" /\ ~vocab_final) => ~last.ok

\* C5: once the vocabulary is final, no call on the instance changes the
\* token -> id mapping or vocab_size.
C5_VocabImmutable ==
    [][(vocab_final /\ last'.op # "__init__") =>
        (vocab' = vocab /\ vocab_size' = vocab_size)]_vars

\* the counter keys a text touches: its tokens, the out-of-vocabulary ones
\* replaced by the unknown token
Touched(text) == {IF text[i] \in DOMAIN vocab THEN text[i] ELSE kUNK : i \in 1..Len(text)}

\* C6: a successful scan_document adds exactly one to the counter of every
\* distinct vocabulary entry appearing in the text (out-of-vocabulary tokens
\* under the unknown token), whatever the number of occurrences, leaves the
\* other counters as they are, and adds one to the total of documents.
C6_DocumentFrequency ==
    [][(last'.op = "scan_document" /\ last'.ok) =>
        /\ total_docs' = total_docs + 1
        /\ \A w \in Keys(doc_counts') \cup Keys(doc_counts) :
              Get(doc_counts', w) =
                  Get(doc_counts, w) + (IF w \in Touched(last'.text) THEN 1 ELSE 0)]_vars

NonZero(weight) == weight[1] # 0 /\ weight[3] # weight[4]

\* C7: training a new instance (max_vocab_size 50, unk_cutoff 1) on the
\* three documents of the scenario completes, and leaves a matrix of three
\* rows whose first row, the vector of "the cat sat", is not zero.
C7_EndToEnd ==
    (last.op = "train" /\ last.fresh /\ last.corpus = ToyCorpus
        /\ max_vocab_size = 50 /\ unk_cutoff = 1) =>
        /\ last.ok
        /\ doc_vectors.set
        /\ Len(doc_vectors.rows) = 3
        /\ \E i \in 1..vocab_size : NonZero(doc_vectors.rows[1][i])

\* the id a token is counted under: its own, the unknown token's otherwise
IdOf(word) == IF word \in DOMAIN vocab THEN vocab[word] ELSE vocab[kUNK]

\* C8: with vocabulary and documents final, embed returns for every text a
\* vector of length vocab_size; the entry of an id that no token of the text
\* maps to is zero, and the entry of an id present is tf * idf with tf the
\* id's occurrences over the number of tokens of the text.
C8_EmbedTermFrequency ==
    (last.op = "embed" /\ vocab_final /\ docs_final) =>
        /\ last.ok
        /\ Len(last.vec) = vocab_size
        /\ \A id \in 0..(vocab_size - 1) :
              LET occ == Cardinality({i \in 1..Len(last.text) : IdOf(last.text[i]) = id})
                  weight == last.vec[id + 1]
              IN  IF occ = 0 THEN ~NonZero(weight)
                  ELSE NonZero(weight) => weight[1] * Len(last.text) = occ * weight[2]

\* C9: embed returns a vector only when the vocabulary and the documents are
\* both final; it fails whenever one of them is not, for every text.
C9_EmbedGate ==
    (last.op = "embed" /\ last.ok) => (vocab_final /\ docs_final)

\* the document frequency of an id: the count, in the table scan_document
\* writes, of the token that has the id
DocFreq(id) ==
    IF \E w \in DOMAIN vocab : vocab[w] = id
    THEN Get(doc_counts, CHOOSE w \in DOMAIN vocab : vocab[w] = id)
    ELSE 0

\* C10: with the documents final, inv_docfreq returns for every id a value:
\* exactly 0.0 for an id of document frequency 0, log10(N / (1 + df)) for
\* one of document frequency df >= 1, N the total of documents; and the
\* value of an id is at least the value of every id whose document
\* frequency is not smaller.
C10_IdfMonotone ==
    (last.op = "inv_docfreq" /\ docs_final) =>
        /\ last.ok
        /\ Len(last.vec) = 1
        /\ last.vec[1] = IF DocFreq(last.count) = 0 THEN Zero
                         ELSE log10(<<total_docs, 1 + DocFreq(last.count)>>)
        /\ \A id \in 0..(vocab_size - 1) :
              DocFreq(last.count) <= DocFreq(id) =>
                  /\ inv_docfreq(Self, id).ok
                  /\ Geq(last.vec[1], inv_docfreq(Self, id).vec[1])

\* a weight (c / n) * log10(p / q), with c >= 0 and n > 0, is at least 0.0
NonNegative(weight) == weight[1] = 0 \/ Geq(<<weight[3], weight[4]>>, Zero)

C12_BestMatch ==
    (last.op = "__call__" /\ questions # <<>>) =>
        /\ last.ok
        /\ LET q == embed(Self, last.text).vec
               sim == [i \in 1..Len(doc_vectors.rows) |-> cosine(q, doc_vectors.rows[i])]
               best == last.id + 1
           IN  /\ best \in DOMAIN sim
               /\ \A j \in DOMAIN sim : sim[best] >= sim[j]
               /\ \A j \in 1..(best - 1) : sim[j] < sim[best]
               /\ last.vec[2] = answers[best]
               /\ last.vec[3] = sim[best]
               /\ IsZeros(q) => (last.id = 0 /\ last.vec[3] = 0)

\* C13: vocab_seen(word, count) fails and changes no count when the
\* vocabulary is final; otherwise it returns, having added count to the
\* count of word and left every other count, the vocabulary and the two
\* flags as they were.
C13_VocabSeen ==
    [][last'.op = "vocab_seen" =>
        IF vocab_final
        THEN ~last'.ok /\ doc_counts' = doc_counts
        ELSE /\ last'.ok
             /\ \A w \in Keys(doc_counts) \cup Keys(doc_counts') \cup {last'.word} :
                   Get(doc_counts', w) =
                       Get(doc_counts, w) + (IF w = last'.word THEN last'.count ELSE 0)
             /\ vocab' = vocab
             /\ vocab_final' = vocab_final
             /\ docs_final' = docs_final]_vars

\* C13 witness: vocab_seen has returned after adding a count of 2 to a word,
\* with another word in the table
C13_Witness ==
    /\ last.op = "vocab_seen" /\ last.ok /\ last.count = 2
    /\ Get(doc_counts, last.word) = 2
    /\ \E w \in Keys(doc_counts) : w # last.word
    /\ ~vocab_final

\* a vocabulary that is final is within the capacity
WithinCapacity(s) == s.vocab_final => s.vocab_size < s.max_vocab_size

RECURSIVE ScansReturned(_, _)
ScansReturned(s, docs) ==
    IF docs = <<>> THEN 0
    ELSE LET scanned == scan_document(s, Head(docs))
         IN  IF ~scanned.ok THEN 0 ELSE 1 + ScansReturned(scanned.self, Tail(docs))

\* the same number for a whole train, which reaches pass 2 only when pass 1
\* and finalize_vocab have returned
TrainScans(s, corpus, labels) ==
    LET s0 == [s EXCEPT !.questions = corpus, !.answers = labels]
        p1 == SeeAll(s0, Flatten(corpus))
    IN  IF ~p1.ok THEN 0
        ELSE LET fv == finalize_vocab(p1.self)
             IN  IF ~fv.ok THEN 0 ELSE ScansReturned(fv.self, corpus)

\* C15: scan_document fails when the vocabulary is not final or the
\* documents are final; a scan_document that fails leaves the count table
\* and the total of documents as they were; and the total of documents is 0
\* at construction and every call on the instance changes it by the number
\* of scan_document calls that returned in it.
C15_ScanGate ==
    [][/\ last'.op = "scan_document" =>
              /\ (~vocab_final \/ docs_final) => ~last'.ok
              /\ ~last'.ok => (doc_counts' = doc_counts /\ total_docs' = total_docs)
       /\ total_docs' =
              CASE last'.op = "__init__" -> 0
                [] last'.op = "scan_document" -> total_docs + (IF last'.ok THEN 1 ELSE 0)
                [] last'.op = "train" ->
                       total_docs + TrainScans(Self, last'.corpus, answers')
                [] OTHER -> total_docs]_vars

\* C15 witness: scan_document has failed on final documents, after a
\* scan_document that returned
C15_Witness ==
    /\ last.op = "scan_document" /\ ~last.ok
    /\ vocab_final /\ docs_final
    /\ total_docs >= 1
    /\ questions = <<>>

\* C16: load into a new instance, of the files save has written for an
\* engine train has been called on, returns and leaves the new instance with
\* the mapping, the document matrix and the count table that were saved,
\* with the vocab_size of that mapping (line 297) and the total of documents
\* of a trained engine, the number of its questions (line 75), and with both
\* flags set: the fields every query is answered from.
C16_RoundTrip ==
    (last.op = "load" /\ last.fresh /\ disk.written > 0) =>
        /\ last.ok
        /\ questions = disk.questions /\ answers = disk.answers
        /\ vocab = disk.vocab
        /\ vocab_size = Cardinality(DOMAIN disk.vocab)
        /\ doc_vectors = disk.doc_vectors
        /\ total_docs = Len(disk.questions)
        /\ doc_counts = disk.doc_counts
        /\ vocab_final /\ docs_final

\* C17: embed and a query leave the vocabulary, vocab_size, the count
\* table, the total of documents, the two flags and the document matrix as
\* they were, and after them embed gives for every text the outcome it gave
\* before.
C17_QueriesReadOnly ==
    [][last'.op \in {"embed", "__call__"} =>
        /\ vocab' = vocab
        /\ vocab_size' = vocab_size
        /\ doc_counts' = doc_counts
        /\ total_docs' = total_docs
        /\ vocab_final' = vocab_final
        /\ docs_final' = docs_final
        /\ doc_vectors' = doc_vectors
        /\ \A text \in Texts :
              /\ embed(Self', text).ok = embed(Self, text).ok
              /\ embed(Self', text).vec = embed(Self, text).vec]_vars

\* C17 witness: on an engine train has been called on, with both flags set,
\* embed has returned the vector of a text that is not empty
C17_Witness ==
    /\ last.op = "embed" /\ last.ok
    /\ questions # <<>> /\ vocab_final /\ docs_final
    /\ last.text # <<>>
    /\ Len(last.vec) = vocab_size

\* C18: once the vocabulary is final, scan_document and finalize_docs leave
\* the table of global token counts, the one vocab_seen writes and
\* finalize_vocab reads, as it was.
C18_GlobalCountsFrozen ==
    [][(vocab_final /\ last'.op \in {"scan_document", "finalize_docs"}) =>
        doc_counts' = doc_counts]_vars

\* C19: after a train, on a new instance, whose pass 2 has scanned every
\* document, every token of the vocabulary has been counted once in pass 1
\* and once in pass 2 for each occurrence in the corpus of a raw token with
\* that normalized form: none of these occurrences went to the unknown token
\* in pass 2.
C19_SameTokens ==
    (last.op = "train" /\ last.fresh /\ vocab_final /\ total_docs = Len(questions)) =>
        \A w \in DOMAIN vocab \ {kUNK} :
            Get(doc_counts, w) = 2 * Occurrences(questions, w)

====
